---------------------------- MODULE Spec2Model ----------------------------
(***************************************************************************)
(* Model of the UBA graduate-program chatbot.                              *)
(*                                                                         *)
(*   main.py       raw-cache deployment: the scraping cache, the question  *)
(*                 endpoint and the forced refresh (specification          *)
(*                 SpecCache).                                             *)
(*   ai_engine.py  retrieval engine and prompt assembler over the record   *)
(*   database.py   store: the functions applied to given stores            *)
(*                 (specification SpecPrompt), and the calls interleaved   *)
(*                 with the commits of a save (specification SpecRAG).     *)
(*   scraper_complete.py  the batch scraper that fills the record store    *)
(*                 (specification SpecScraper).                            *)
(*                                                                         *)
(* Text is a sequence of one-character strings, so that lower-casing,      *)
(* substring search, LIKE matching and slicing are computed as the code    *)
(* computes them.                                                          *)
(***************************************************************************)
EXTENDS Integers, Sequences, FiniteSets, TLC

VARIABLES
    scraping_cache,   \* main.py: the module-level cache dictionary
    now,              \* main.py: the wall clock read by datetime.now(), in hours
    task,             \* main.py: one coroutine per caller: position and locals
    last,             \* main.py: the response of the call that completed last
    tablas,           \* database.py: the tables exist (create_all has run)
    programas,        \* database.py: rows of table programas, in rowid order
    materias,         \* database.py: rows of table materias, in rowid order
    consultas,        \* database.py: rows of table consultas, in rowid order
    guardando,        \* scraper_complete.py: the save of lines 304-314 under way
    llamadas,         \* ai_engine.py: the calls of generar_respuesta suspended
                      \* at line 183, with their locals
    ret,              \* ai_engine.py: the tuple the step just taken returned
    scraper           \* scraper_complete.py: the coroutine of scrape_todo

cacheVars == <<scraping_cache, now, task, last>>
ragVars == <<tablas, programas, materias, consultas, guardando, llamadas, ret>>
scraperVars == <<scraper>>
vars == <<scraping_cache, now, task, last, tablas, programas, materias, consultas,
          guardando, llamadas, ret, scraper>>

(***************************************************************************)
(* Bounds of the model.                                                    *)
(***************************************************************************)
\* The clock advances in steps of TickHours up to MaxNow.
TickHours == 12
MaxNow == 36
\* Number of configured URLs the model iterates over (the code has four; the
\* refresh loop treats every entry alike).
NumUrls == 2

(***************************************************************************)
(* main.py: configuration                                                  *)
(***************************************************************************)
\* Callers of the HTTP endpoints that may be in flight at the same time.
Callers == {"c1", "c2"}

\* startup_event, the coroutine FastAPI runs before the first request is served.
Startup == "startup"

\* The coroutines that may run scrape_uba.
Tasks == Callers \cup {Startup}

\* URLS_UBA, each URL named by its position in the list.
URLS_UBA == [i \in 1..NumUrls |-> i]

\* scraping_cache["ttl_hours"]
ttl_hours == 24

\* scraping_cache["timestamp"] = None
NoTimestamp == -1

\* The empty string.
EmptyText == <<>>

\* The initial value of the cache dictionary.
InitialCache == [data |-> EmptyText, timestamp |-> NoTimestamp, ttl_hours |-> ttl_hours]

\* Outcomes of one `session.get(url)` + `response.text()` that leave the
\* coroutine inside the loop:
\*   "200"     status 200, page text extracted
\*   "non200"  any other status (logged, nothing appended)
\*   "error"   an exception caught by the per-URL `except Exception`
\* (an error the per-URL handler does not catch is action ScrapeRaises).
GetOutcomes == {"200", "non200", "error"}

\* Outcomes of the OpenAI call inside ask_ai.
AiOutcomes == {"ok", "fail"}

\* Questions sent to POST /q.
Preguntas == {<<>>, <<" ", "a", "b", " ">>, <<"a", "b", "c">>, <<" ", "q", "u", "e", " ">>}

(***************************************************************************)
(* Text helpers                                                            *)
(***************************************************************************)
\* Python str.strip() restricted to the blank character.
RECURSIVE LStrip(_)
LStrip(s) ==
    IF s # <<>> /\ Head(s) = " " THEN LStrip(Tail(s)) ELSE s

RECURSIVE RStrip(_)
RStrip(s) ==
    IF s # <<>> /\ s[Len(s)] = " " THEN RStrip(SubSeq(s, 1, Len(s) - 1)) ELSE s

Strip(s) == RStrip(LStrip(s))

\* The question has fewer than 3 characters once trimmed.
Corta(q) == Len(Strip(q)) < 3

\* Mutant: the length is taken without trimming.
PreguntaMuyCortaSinStrip(q) == q = <<>> \/ Len(q) < 3

\* consultar, line 548: `not pregunta.pregunta or len(pregunta.pregunta.strip()) < 3`.
PreguntaMuyCorta(q) == q = <<>> \/ Len(Strip(q)) < 3

(***************************************************************************)
(* main.py: scrape_uba                                                     *)
(***************************************************************************)
\* f"=== {url} ===\n{texto_limpio[:8000]}": the block appended for one page;
\* it is never the empty string.
PageBlock(url) == <<url>>

\* "\n\n".join(datos): empty exactly when no page was appended.
RECURSIVE JoinBlocks(_)
JoinBlocks(datos) ==
    IF datos = <<>> THEN EmptyText ELSE Head(datos) \o JoinBlocks(Tail(datos))

\* Lines 58-60: the cache holds data, has a timestamp, and its age is below the TTL.
CacheValid(cache, clock) ==
    /\ cache.data # EmptyText
    /\ cache.timestamp # NoTimestamp
    /\ clock - cache.timestamp < cache.ttl_hours

\* What an error that leaves scrape_uba is: an Exception, which the handlers
\* of lines 197, 559 and 584 catch, or another BaseException (such as
\* asyncio.CancelledError), which they let through.
Excepciones == {"Exception", "BaseException"}

\* A caller with no request in flight; startup_event not yet run.
Idle == [pc |-> "idle", op |-> "none", idx |-> 0, datos |-> <<>>, corta |-> FALSE]

\* No call has completed yet.
NoCall == [flip |-> FALSE, op |-> "none", status |-> 0,
           ctx |-> EmptyText, respuesta |-> "none", detail |-> "none", corta |-> FALSE,
           cache_size |-> 0, cache_age |-> <<>>]

\* The response record of a completed call: the endpoint, the HTTP status, the
\* context get_context / scrape_uba handed back, the answer text and the
\* message or detail of the response. `flip` alternates on every completed call;
\* `corta` tells whether the call carried a question that is short once trimmed.
Response(op, status, ctx, respuesta, detail) ==
    [flip |-> ~last.flip, op |-> op, status |-> status,
     ctx |-> ctx, respuesta |-> respuesta, detail |-> detail, corta |-> FALSE,
     cache_size |-> 0, cache_age |-> <<>>]

\* startup_event has returned after line 196: scrape_uba completed.
Arrancado == [pc |-> "done", op |-> "startup", idx |-> 0, datos |-> <<>>, corta |-> FALSE]

\* startup_event has returned after line 198: scrape_uba raised an Exception,
\* which was logged.
ArranqueFallido == [Arrancado EXCEPT !.pc = "fallido"]

\* startup_event was left by an error that is not an Exception: the
\* application does not start.
ArranqueAbortado == [Arrancado EXCEPT !.pc = "abortado"]

\* Requests are served once the startup handlers have run (or when the
\* application is driven without them).
Sirviendo == task[Startup].pc \in {"idle", "done", "fallido"}

\* ask_ai: the model's answer, or the fixed apology when the call raises.
AskAi(ai) == IF ai = "ok" THEN "answer" ELSE "degraded"

InitCache ==
    /\ scraping_cache = InitialCache
    /\ now = 0
    /\ task = [t \in Tasks |-> Idle]
    /\ last = NoCall

\* The callers of generar_respuesta.
Llamadas == {"k1", "k2"}

\* The step just taken returned nothing from generar_respuesta.
NoRet == [op |-> "none"]

\* No call of generar_respuesta is suspended for the caller.
NoLlamada == [pc |-> "idle"]

\* No save is under way.
NoGuardado == [pc |-> "idle"]

\* The database file before init_database has run: no table exists.
InitRAG ==
    /\ tablas = FALSE
    /\ programas = <<>>
    /\ materias = <<>>
    /\ consultas = <<>>
    /\ guardando = NoGuardado
    /\ llamadas = [k \in Llamadas |-> NoLlamada]
    /\ ret = NoRet

\* No call of fetch_url has returned yet.
NoRes == [html |-> "none", status |-> 0, vistos |-> <<>>, esperas |-> 0]

\* scrape_todo has not been started.
ScraperIdle ==
    [pc |-> "idle", idx |-> 0, pagina |-> 0, intento |-> 0, vistos |-> <<>>, esperas |-> 0,
     res |-> NoRes, paginas |-> <<>>, guardado |-> "no", commits |-> 0, programa_id |-> 0,
     sesion |-> "ok", intentados |-> <<>>]

InitScraper == scraper = ScraperIdle

Init == InitCache /\ InitRAG /\ InitScraper

\* Time passes.
Tick ==
    /\ now + TickHours <= MaxNow
    /\ now' = now + TickHours
    /\ UNCHANGED <<scraping_cache, task, last>>
    /\ UNCHANGED <<ragVars, scraperVars>>

\* consultar, lines 548-549: the trimmed question is shorter than 3 characters.
ConsultarRejected(c, q) ==
    /\ Sirviendo
    /\ task[c].pc = "idle"
    /\ PreguntaMuyCorta(q)
    /\ last' = [Response("consultar", 400, EmptyText, "none", "Pregunta muy corta")
                   EXCEPT !.corta = Corta(q)]
    /\ UNCHANGED <<scraping_cache, now, task>>
    /\ UNCHANGED <<ragVars, scraperVars>>

\* consultar -> get_context with data in the cache (line 118 false): the cached
\* text is returned without calling scrape_uba, then ask_ai runs; no await
\* suspends, so the whole request is one step.
ConsultarCached(c, q, ai) ==
    /\ Sirviendo
    /\ task[c].pc = "idle"
    /\ ~PreguntaMuyCorta(q)
    /\ scraping_cache.data # EmptyText
    /\ last' = [Response("consultar", 200, scraping_cache.data, AskAi(ai), "none")
                   EXCEPT !.corta = Corta(q)]
    /\ UNCHANGED <<scraping_cache, now, task>>
    /\ UNCHANGED <<ragVars, scraperVars>>

\* scrape_uba up to its first await: lines 58-62 decided against the cache, the
\* session is opened and the first session.get is issued.
StartScrape(c, op, corta) ==
    task' = [task EXCEPT ![c] = [pc |-> "get", op |-> op, idx |-> 1, datos |-> <<>>,
                                 corta |-> corta]]

\* startup_event, lines 191-196: run once, before any request is served;
\* scrape_uba (whose cache check fails on the empty cache) is awaited.
StartupEvent ==
    /\ task[Startup].pc = "idle"
    /\ last = NoCall
    /\ \A c \in Callers : task[c].pc = "idle"
    /\ StartScrape(Startup, "startup", FALSE)
    /\ UNCHANGED <<scraping_cache, now, last>>
    /\ UNCHANGED <<ragVars, scraperVars>>

\* consultar -> get_context with an empty cache (line 118 true): scrape_uba is
\* awaited; its own cache check fails on the empty data.
ConsultarMiss(c, q) ==
    /\ Sirviendo
    /\ task[c].pc = "idle"
    /\ ~PreguntaMuyCorta(q)
    /\ scraping_cache.data = EmptyText
    /\ ~CacheValid(scraping_cache, now)
    /\ StartScrape(c, "consultar", Corta(q))
    /\ UNCHANGED <<scraping_cache, now, last>>
    /\ UNCHANGED <<ragVars, scraperVars>>

\* refresh_cache -> scrape_uba returning at line 62: the cache is valid.
RefreshCacheValid(c) ==
    /\ Sirviendo
    /\ task[c].pc = "idle"
    /\ CacheValid(scraping_cache, now)
    /\ last' = Response("refresh_cache", 200, scraping_cache.data, "none", "Cache actualizado")
    /\ UNCHANGED <<scraping_cache, now, task>>
    /\ UNCHANGED <<ragVars, scraperVars>>

\* refresh_cache -> scrape_uba past line 62: the cache is empty or stale.
RefreshCacheScrape(c) ==
    /\ Sirviendo
    /\ task[c].pc = "idle"
    /\ ~CacheValid(scraping_cache, now)
    /\ StartScrape(c, "refresh_cache", FALSE)
    /\ UNCHANGED <<scraping_cache, now, last>>
    /\ UNCHANGED <<ragVars, scraperVars>>

\* Lines 76-98: the pending session.get completes with status 200 (the page
\* block is appended) or fails in a way the per-URL handler absorbs; the
\* coroutine then suspends in asyncio.sleep(1).
GetDone(c, outcome) ==
    /\ task[c].pc = "get"
    /\ task' = [task EXCEPT ![c].pc = "sleep",
                            ![c].datos = IF outcome = "200"
                                         THEN Append(@, PageBlock(URLS_UBA[task[c].idx]))
                                         ELSE @]
    /\ UNCHANGED <<scraping_cache, now, last>>
    /\ UNCHANGED <<ragVars, scraperVars>>

\* An error that the per-URL handler does not catch (raised by the session
\* context manager, by asyncio.sleep, or not an Exception subclass) leaves
\* scrape_uba before line 106; get_context does not catch it. An Exception is
\* caught by the caller: consultar and refresh_cache answer HTTP 500 (lines
\* 559-561, 584-585) and startup_event logs it and returns (197-198). Any
\* other BaseException passes those handlers: the request ends with no
\* response of the endpoint (status 0), and startup_event raises it.
ScrapeRaises(c, exc) ==
    /\ task[c].pc \in {"get", "sleep"}
    /\ last' = IF c = Startup THEN last
               ELSE IF exc = "Exception"
               THEN [Response(task[c].op, 500, EmptyText, "none",
                              IF task[c].op = "consultar" THEN "Error interno del servidor" ELSE "str(e)")
                       EXCEPT !.corta = task[c].corta]
               ELSE [Response(task[c].op, 0, EmptyText, "none", "raises")
                       EXCEPT !.corta = task[c].corta]
    /\ task' = [task EXCEPT ![c] = IF c # Startup THEN Idle
                                   ELSE IF exc = "Exception" THEN ArranqueFallido
                                   ELSE ArranqueAbortado]
    /\ UNCHANGED <<scraping_cache, now>>
    /\ UNCHANGED <<ragVars, scraperVars>>

\* Line 101 returns and another URL remains: the next session.get is issued.
SleepNext(c) ==
    /\ task[c].pc = "sleep"
    /\ task[c].idx < Len(URLS_UBA)
    /\ task' = [task EXCEPT ![c].pc = "get", ![c].idx = @ + 1]
    /\ UNCHANGED <<scraping_cache, now, last>>
    /\ UNCHANGED <<ragVars, scraperVars>>

\* Mutant: only the text is written when the loop is over; the timestamp is
\* left for later.
RefreshedCacheSoloDatos(cache, datos, clock) ==
    [cache EXCEPT !.data = JoinBlocks(datos)]

\* datetime.timedelta: the seconds of a day, of an hour (the unit of the
\* clock) and of a minute.
SecondsPerDay == 86400
SecondsPerHour == 3600
SecondsPerMinute == 60

\* timedelta.seconds of an age of `horas` hours: the seconds left once the
\* whole days are taken out (held apart, in timedelta.days).
TimedeltaSeconds(horas) == (horas * SecondsPerHour) % SecondsPerDay

\* health, lines 566-569: f"{age.seconds // 3600}h {(age.seconds % 3600) // 60}m"
\* as the pair of its two numbers, or None (no pair) while the timestamp is
\* None.
CacheAge(cache, clock) ==
    IF cache.timestamp # NoTimestamp
    THEN LET seconds == TimedeltaSeconds(clock - cache.timestamp)
         IN  <<seconds \div SecondsPerHour, (seconds % SecondsPerHour) \div SecondsPerMinute>>
    ELSE <<>>

\* health, lines 563-576: no await suspends it; it answers the size of the
\* cached text and the age of the entry.
Health ==
    /\ Sirviendo
    /\ last' = [Response("health", 200, EmptyText, "none", "healthy")
                   EXCEPT !.cache_size = Len(scraping_cache.data),
                          !.cache_age = CacheAge(scraping_cache, now)]
    /\ UNCHANGED <<scraping_cache, now, task>>
    /\ UNCHANGED <<ragVars, scraperVars>>

\* Lines 103-107: the cache entry written when the loop is over.
RefreshedCache(cache, datos, clock) ==
    [cache EXCEPT !.data = JoinBlocks(datos), !.timestamp = clock]

\* Line 101 returns after the last URL: lines 103-110 run, then the caller's
\* continuation (get_context line 120 and ask_ai, or refresh_cache line 583,
\* or startup_event line 196, which answers nothing).
SleepLast(c, ai) ==
    /\ task[c].pc = "sleep"
    /\ task[c].idx = Len(URLS_UBA)
    /\ scraping_cache' = RefreshedCache(scraping_cache, task[c].datos, now)
    /\ last' = IF task[c].op = "consultar"
               THEN [Response("consultar", 200, scraping_cache'.data, AskAi(ai), "none")
                       EXCEPT !.corta = task[c].corta]
               ELSE IF task[c].op = "refresh_cache"
               THEN Response("refresh_cache", 200, scraping_cache'.data, "none", "Cache actualizado")
               ELSE last
    /\ task' = [task EXCEPT ![c] = IF c = Startup THEN Arrancado ELSE Idle]
    /\ UNCHANGED now
    /\ UNCHANGED <<ragVars, scraperVars>>

NextCache ==
    \/ Tick
    \/ \E c \in Callers, q \in Preguntas : ConsultarRejected(c, q)
    \/ \E c \in Callers, q \in Preguntas, ai \in AiOutcomes : ConsultarCached(c, q, ai)
    \/ \E c \in Callers, q \in Preguntas : ConsultarMiss(c, q)
    \/ \E c \in Callers : RefreshCacheValid(c)
    \/ \E c \in Callers : RefreshCacheScrape(c)
    \/ StartupEvent
    \/ \E c \in Tasks, o \in GetOutcomes : GetDone(c, o)
    \/ \E c \in Tasks, exc \in Excepciones : ScrapeRaises(c, exc)
    \/ \E c \in Tasks : SleepNext(c)
    \/ \E c \in Tasks, ai \in AiOutcomes : SleepLast(c, ai)
    \/ Health

SpecCache == Init /\ [][NextCache]_vars

(***************************************************************************)
(* Bounds of the record-store model.                                       *)
(***************************************************************************)
\* Rows of table programas the store may hold.
MaxProgramas == 2
\* Subjects of the largest program (above the cap of 30 of the context bundle).
MaxMaterias == 31
\* Words a question is made of.
MaxPalabras == 2
\* Characters of the longest stored text (above the cut of 500 of the prompt).
MaxTexto == 501
\* Rows a table takes from callers other than the scraper.
MaxSueltas == 1

(***************************************************************************)
(* Text: characters, case mapping, search                                  *)
(***************************************************************************)
\* SQL NULL / Python None in a text column.
Null == <<"<NULL>">>

AsciiUpper == <<"A", "B", "C", "D", "E", "F", "G", "H", "I", "J", "K", "L", "M", "N", "O", "P", "Q", "R", "S", "T", "U", "V", "W", "X", "Y", "Z">>
AsciiLower == <<"a", "b", "c", "d", "e", "f", "g", "h", "i", "j", "k", "l", "m", "n", "o", "p", "q", "r", "s", "t", "u", "v", "w", "x", "y", "z">>
\* Accented letters are written with an ASCII mark: "o'" is o-acute.
AccentUpper == <<"A'", "E'", "I'", "O'", "U'", "N~">>
AccentLower == <<"a'", "e'", "i'", "o'", "u'", "n~">>
DigitChars == <<"0", "1", "2", "3", "4", "5", "6", "7", "8", "9">>

\* The table that sends each character of `from` to the character at the same
\* position of `to`.
Tabla(from, to) ==
    [ch \in {from[i] : i \in 1..Len(from)} |-> to[CHOOSE i \in 1..Len(from) : from[i] = ch]]

AsciiToLower == Tabla(AsciiUpper, AsciiLower)
AsciiToUpper == Tabla(AsciiLower, AsciiUpper)
AccentToLower == Tabla(AccentUpper, AccentLower)
AccentToUpper == Tabla(AccentLower, AccentUpper)

\* The character the table gives for `ch`, or `ch` itself.
MapChar(ch, tabla) == IF ch \in DOMAIN tabla THEN tabla[ch] ELSE ch

\* Python str.lower(): Unicode aware.
PyLower(s) == [i \in 1..Len(s) |-> MapChar(MapChar(s[i], AsciiToLower), AccentToLower)]

\* Python str.upper().
PyUpper(s) == [i \in 1..Len(s) |-> MapChar(MapChar(s[i], AsciiToUpper), AccentToUpper)]

\* SQLite lower(): folds ASCII letters only.
SqlLower(s) == [i \in 1..Len(s) |-> MapChar(s[i], AsciiToLower)]

\* Python `sub in s`.
Contains(sub, s) ==
    \E i \in 0..(Len(s) - Len(sub)) : \A k \in 1..Len(sub) : s[i + k] = sub[k]

\* Python s[:n].
Take(s, n) == SubSeq(s, 1, IF Len(s) < n THEN Len(s) ELSE n)

\* Python str(x) for an optional text: None prints as "None".
PyStr(x) == IF x = Null THEN <<"N", "o", "n", "e">> ELSE x

\* Python truthiness of an optional text / of an optional number.
TruthyText(x) == x # Null /\ x # <<>>
TruthyNum(x) == x # <<>> /\ x[1] # 0

\* Decimal digits of a natural number.
RECURSIVE Digits(_)
Digits(k) ==
    IF k < 10 THEN <<DigitChars[k + 1]>>
    ELSE Digits(k \div 10) \o <<DigitChars[(k % 10) + 1]>>

\* SQL `txt LIKE pat`, from position i of pat and position j of txt: % matches
\* any run of characters, _ exactly one.
RECURSIVE LikeFrom(_, _, _, _)
LikeFrom(pat, txt, i, j) ==
    IF i > Len(pat) THEN j > Len(txt)
    ELSE IF pat[i] = "%"
         THEN LikeFrom(pat, txt, i + 1, j) \/ (j <= Len(txt) /\ LikeFrom(pat, txt, i, j + 1))
    ELSE IF j > Len(txt) THEN FALSE
    ELSE IF pat[i] = "_" THEN LikeFrom(pat, txt, i + 1, j + 1)
    ELSE pat[i] = txt[j] /\ LikeFrom(pat, txt, i + 1, j + 1)

\* SQL `txt LIKE pat`.
LikeMatch(pat, txt) == LikeFrom(pat, txt, 1, 1)

\* Column.ilike(f'%{query}%') on SQLite: lower(column) LIKE lower('%query%');
\* NULL columns never match.
ILike(column, query) ==
    /\ column # Null
    /\ LET pat == SqlLower(<<"%">> \o query \o <<"%">>)
           txt == SqlLower(column)
       IN  LikeMatch(pat, txt)

(***************************************************************************)
(* database.py: the record store                                           *)
(***************************************************************************)
\* agregar_programa: a row appended to programas with the next primary key.
agregar_programa(progs, datos) ==
    Append(progs, [id |-> Len(progs) + 1] @@ datos)

\* agregar_materia: a row appended to materias, owned by programa_id.
agregar_materia(mats, programa_id, datos) ==
    Append(mats, [id |-> Len(mats) + 1, programa_id |-> programa_id] @@ datos)

\* registrar_consulta: a row appended to consultas. No function of main.py,
\* ai_engine.py or scraper_complete.py calls it.
registrar_consulta(tabla, pregunta, respuesta, programa, tiempo_ms, tokens) ==
    Append(tabla, [id |-> Len(tabla) + 1, pregunta |-> pregunta, respuesta |-> respuesta,
                   programa_relacionado |-> programa, tiempo_respuesta_ms |-> tiempo_ms,
                   tokens_usados |-> tokens])

\* scrape_plan_estudios, line 221: the kind every subject of a curriculum page
\* gets, 'optativa' when the word occurs anywhere in the page.
Troncal == <<"t", "r", "o", "n", "c", "a", "l">>
Optativa == <<"o", "p", "t", "a", "t", "i", "v", "a">>

\* scrape_plan_estudios, lines 211-227: the k-th subject extracted from a
\* curriculum page: its name ("Materia", the program's initial and the
\* position; line 213 keeps names of 6 to 199 characters), the kind of the
\* page, the hours found after the name (None when there are none); the area
\* is not extracted and the column stays NULL.
MateriaDatos(sigla, k, tipo) ==
    [nombre |-> <<"M", "a", "t", "e", "r", "i", "a", " ", sigla>> \o Digits(k),
     tipo |-> tipo,
     carga_horaria |-> IF k % 2 = 0 THEN <<>> ELSE <<36>>,
     area_tematica |-> Null]

\* Lines 142 and 145 of ai_engine.py: [:500].
MAX_TEXTO_PROMPT == 500

\* A text column of n characters, as scrape_objetivos / scrape_requisitos store
\* it; the character at each position tells the position.
TextoLargo(n) == [i \in 1..n |-> DigitChars[(i % 10) + 1]]

\* What the pages of a program hold, as the extractors of lines 113-274 find
\* it; Null: the pattern is not on the page.
DatosPenal ==
    [tipo |-> <<"m", "a", "e", "s", "t", "r", "i", "a">>,
     nombre |-> <<"D", "e", "r", "e", "c", "h", "o", " ", "P", "e", "n", "a", "l">>,
     nombre_corto |-> <<"m", "a", "e", "_", "d", "e", "r", "_", "p", "e", "n", "a", "l">>,
     director |-> <<"D", "o", "n", "n", "a">>,
     subdirector |-> Null,
     coordinador |-> Null,
     email |-> <<"p", "@", "u", "b", "a", ".", "a", "r">>,
     carga_horaria_total |-> <<720>>,
     duracion_anios |-> <<2>>,
     modalidad |-> <<"p", "r", "e", "s", "e", "n", "c", "i", "a", "l">>,
     horario_cursada |-> Null,
     objetivos |-> TextoLargo(MaxTexto),
     requisitos |-> Null]

DatosFamilia ==
    [tipo |-> <<"e", "s", "p", "e", "c", "i", "a", "l", "i", "z", "a", "c", "i", "o", "n">>,
     nombre |-> <<"D", "E", "R", "E", "C", "H", "O", " ", "D", "E", " ", "F", "A", "M", "I", "L", "I", "A">>,
     nombre_corto |-> <<"c", "a", "r", "r", "_", "e", "s", "p", "_", "d", "e", "r", "f", "a", "m", "i", "l", "i", "a">>,
     director |-> <<>>,
     subdirector |-> <<>>,
     coordinador |-> <<"P", "e", "n", "a", "l", "v", "a">>,
     email |-> <<>>,
     carga_horaria_total |-> <<>>,
     duracion_anios |-> <<0>>,
     modalidad |-> <<>>,
     horario_cursada |-> <<>>,
     objetivos |-> <<>>,
     requisitos |-> TextoLargo(MAX_TEXTO_PROMPT)]

DatosPenalJuvenil ==
    [tipo |-> <<"e", "s", "p", "e", "c", "i", "a", "l", "i", "z", "a", "c", "i", "o", "n">>,
     nombre |-> <<"P", "e", "n", "a", "l", " ", "J", "u", "v", "e", "n", "i", "l">>,
     nombre_corto |-> <<"c", "a", "r", "r", "_", "e", "s", "p", "_", "i", "n", "f", "a", "n", "t", "o", "_", "j", "u", "v", "e", "n", "i", "l", "e", "s">>,
     director |-> Null,
     subdirector |-> Null,
     coordinador |-> <<"D", "o", "n", "n", "a">>,
     email |-> Null,
     carga_horaria_total |-> <<360>>,
     duracion_anios |-> <<>>,
     modalidad |-> <<"v", "i", "r", "t", "u", "a", "l">>,
     horario_cursada |-> <<"l", "u", "n", "e", "s", " ", "1", "8", "h", "s">>,
     objetivos |-> <<"f", "o", "r", "m", "a", "r">>,
     requisitos |-> TextoLargo(MaxTexto)]

DatosFilosofia ==
    [tipo |-> <<"m", "a", "e", "s", "t", "r", "i", "a">>,
     nombre |-> <<"F", "i", "l", "o", "s", "o", "f", "i", "a">>,
     nombre_corto |-> <<"m", "a", "e", "_", "f", "i", "l", "o", "s", "o", "f", "i", "a", "_", "d", "e", "r", "e", "c", "h", "o">>,
     director |-> <<"M", "a", "d", "o", "n", "n", "a">>,
     subdirector |-> Null,
     coordinador |-> Null,
     email |-> Null,
     carga_horaria_total |-> <<>>,
     duracion_anios |-> <<>>,
     modalidad |-> Null,
     horario_cursada |-> Null,
     objetivos |-> Null,
     requisitos |-> Null]

\* ai_engine.py line 93: materias[:30].
MAX_MATERIAS_CONTEXTO == 30

\* The pages of a program, in the order scrape_programa_completo fetches them
\* (lines 283, 289, 294, 299).
Paginas == <<"principal", "plan", "requisitos", "objetivos">>

\* Every page of a program was fetched.
TodasLasPaginas == [i \in 1..Len(Paginas) |-> "ok"]

\* A text field of the datos dictionary of lines 123-135: '' unless extracted.
TextoExtraido(x) == IF x = Null THEN <<>> ELSE x

\* Lines 166-173: a number is kept only when it is truthy.
NumeroExtraido(x) == IF TruthyNum(x) THEN x ELSE <<>>

\* The row scrape_programa_completo hands to agregar_programa: the fields of
\* the main page (lines 123-184), requisitos and objetivos only when their
\* page was fetched and gave a non-empty value (lines 295-301); columns that
\* are not in datos are NULL.
FilaScrapeada(entrada, paginas) ==
    [tipo |-> entrada.datos.tipo,
     nombre |-> entrada.datos.nombre,
     nombre_corto |-> entrada.datos.nombre_corto,
     director |-> TextoExtraido(entrada.datos.director),
     subdirector |-> TextoExtraido(entrada.datos.subdirector),
     coordinador |-> TextoExtraido(entrada.datos.coordinador),
     email |-> TextoExtraido(entrada.datos.email),
     carga_horaria_total |-> NumeroExtraido(entrada.datos.carga_horaria_total),
     duracion_anios |-> NumeroExtraido(entrada.datos.duracion_anios),
     modalidad |-> TextoExtraido(entrada.datos.modalidad),
     horario_cursada |-> TextoExtraido(entrada.datos.horario_cursada),
     objetivos |-> IF paginas[4] = "ok" /\ TruthyText(entrada.datos.objetivos)
                   THEN entrada.datos.objetivos ELSE Null,
     requisitos |-> IF paginas[3] = "ok" /\ TruthyText(entrada.datos.requisitos)
                    THEN entrada.datos.requisitos ELSE Null]


\* Programs as their pages show them: the fields of the main page, and the
\* curriculum page (the initial its subject names carry, their number n, and
\* the kind line 221 gives them all).
Candidatos ==
    { [datos |-> DatosPenal, sigla |-> "p", n |-> MaxMaterias, tipo_materia |-> Optativa],
      [datos |-> DatosFamilia, sigla |-> "f", n |-> MAX_MATERIAS_CONTEXTO, tipo_materia |-> Troncal],
      [datos |-> DatosPenalJuvenil, sigla |-> "j", n |-> 1, tipo_materia |-> Troncal],
      [datos |-> DatosFilosofia, sigla |-> "s", n |-> 0, tipo_materia |-> Troncal] }

\* Lines 193-194 and 309-310: the subjects scrape_plan_estudios returns, none
\* when the curriculum page is absent.
MateriasScrapeadas(entrada, paginas) ==
    [sigla |-> entrada.sigla, n |-> IF paginas[2] = "ok" THEN entrada.n ELSE 0,
     tipo_materia |-> entrada.tipo_materia]

\* scrape_programa_completo, lines 309-310: the subjects k..n saved one by one.
RECURSIVE GuardarMaterias(_, _, _, _)
GuardarMaterias(mats, programa_id, cand, k) ==
    IF k > cand.n THEN mats
    ELSE GuardarMaterias(agregar_materia(mats, programa_id,
                                         MateriaDatos(cand.sigla, k, cand.tipo_materia)),
                         programa_id, cand, k + 1)

\* scrape_programa_completo, lines 304-317: the tables after the save when
\* the first `commits` commits succeed and the next one raises (agregar_programa
\* commits the row, each agregar_materia one subject); the handler of line 315
\* leaves what was committed. completo: no commit raised.
Guardado(progs, mats, entrada, paginas, commits) ==
    LET ms == MateriasScrapeadas(entrada, paginas)
        hechas == IF commits - 1 < ms.n THEN commits - 1 ELSE ms.n
    IN  IF commits = 0
        THEN [programas |-> progs, materias |-> mats, completo |-> FALSE]
        ELSE [programas |-> agregar_programa(progs, FilaScrapeada(entrada, paginas)),
              materias |-> GuardarMaterias(mats, Len(progs) + 1, [ms EXCEPT !.n = hechas], 1),
              completo |-> commits > ms.n]

(***************************************************************************)
(* ai_engine.py: buscar_programa_relevante                                 *)
(***************************************************************************)
\* Lines 29-39: the area table, in dictionary order.
areas ==
    << [area |-> <<"p", "e", "n", "a", "l">>,
        keywords |-> << <<"p", "e", "n", "a", "l">>,
                      <<"c", "r", "i", "m", "i", "n", "a", "l">>,
                      <<"d", "e", "l", "i", "t", "o">>,
                      <<"p", "e", "n", "a">> >>],
       [area |-> <<"c", "i", "v", "i", "l">>,
        keywords |-> << <<"c", "i", "v", "i", "l">>,
                      <<"c", "o", "n", "t", "r", "a", "t", "o", "s">>,
                      <<"o", "b", "l", "i", "g", "a", "c", "i", "o", "n", "e", "s">> >>],
       [area |-> <<"l", "a", "b", "o", "r", "a", "l">>,
        keywords |-> << <<"t", "r", "a", "b", "a", "j", "o">>,
                      <<"l", "a", "b", "o", "r", "a", "l">>,
                      <<"e", "m", "p", "l", "e", "a", "d", "o">>,
                      <<"s", "i", "n", "d", "i", "c", "a", "t", "o">> >>],
       [area |-> <<"f", "a", "m", "i", "l", "i", "a">>,
        keywords |-> << <<"f", "a", "m", "i", "l", "i", "a">>,
                      <<"d", "i", "v", "o", "r", "c", "i", "o">>,
                      <<"a", "d", "o", "p", "c", "i", "o'", "n">>,
                      <<"a", "l", "i", "m", "e", "n", "t", "o", "s">> >>],
       [area |-> <<"t", "r", "i", "b", "u", "t", "a", "r", "i", "o">>,
        keywords |-> << <<"t", "r", "i", "b", "u", "t", "a", "r", "i", "o">>,
                      <<"i", "m", "p", "u", "e", "s", "t", "o">>,
                      <<"f", "i", "s", "c", "a", "l">>,
                      <<"a", "f", "i", "p">> >>],
       [area |-> <<"i", "n", "t", "e", "r", "n", "a", "c", "i", "o", "n", "a", "l">>,
        keywords |-> << <<"i", "n", "t", "e", "r", "n", "a", "c", "i", "o", "n", "a", "l">>,
                      <<"t", "r", "a", "t", "a", "d", "o", "s">>,
                      <<"e", "x", "t", "r", "a", "n", "j", "e", "r", "o">> >>],
       [area |-> <<"a", "d", "m", "i", "n", "i", "s", "t", "r", "a", "t", "i", "v", "o">>,
        keywords |-> << <<"a", "d", "m", "i", "n", "i", "s", "t", "r", "a", "t", "i", "v", "o">>,
                      <<"e", "s", "t", "a", "d", "o">>,
                      <<"p", "u'", "b", "l", "i", "c", "o">> >>],
       [area |-> <<"p", "r", "o", "c", "e", "s", "a", "l">>,
        keywords |-> << <<"p", "r", "o", "c", "e", "s", "a", "l">>,
                      <<"p", "r", "o", "c", "e", "s", "o">>,
                      <<"j", "u", "i", "c", "i", "o">> >>],
       [area |-> <<"a", "m", "b", "i", "e", "n", "t", "a", "l">>,
        keywords |-> << <<"a", "m", "b", "i", "e", "n", "t", "a", "l">>,
                      <<"a", "m", "b", "i", "e", "n", "t", "e">>,
                      <<"e", "c", "o", "l", "o", "g", "i'", "a">> >>] >>

\* Lines 42-46: the first area, in table order, one of whose keywords occurs
\* in the lower-cased question; Null when there is none.
RECURSIVE DetectarArea(_, _)
\* Mutant: the table is scanned without the `break`, so the last matching
\* area wins.
RECURSIVE DetectarAreaSinBreak(_, _)
DetectarAreaSinBreak(query_lower, i) ==
    IF i > Len(areas) THEN Null
    ELSE LET resto == DetectarAreaSinBreak(query_lower, i + 1)
         IN  IF resto # Null THEN resto
             ELSE IF \E k \in 1..Len(areas[i].keywords) : Contains(areas[i].keywords[k], query_lower)
                  THEN areas[i].area
             ELSE Null

DetectarArea(query_lower, i) ==
    IF i > Len(areas) THEN Null
    ELSE IF \E k \in 1..Len(areas[i].keywords) : Contains(areas[i].keywords[k], query_lower)
         THEN areas[i].area
    ELSE DetectarArea(query_lower, i + 1)

\* Lines 49-55: the rows whose nombre, director or coordinador match the question.
BusquedaDirecta(query, progs) ==
    SelectSeq(progs, LAMBDA p : \/ ILike(p.nombre, query)
                                \/ ILike(p.director, query)
                                \/ ILike(p.coordinador, query))

\* Lines 59-61: the rows whose nombre contains the area tag.
BusquedaPorArea(area, progs) ==
    SelectSeq(progs, LAMBDA p : ILike(p.nombre, area))

\* Mutant: when neither search finds a row, every row is taken.
ProgramasEncontradosSinFiltro(query, progs) ==
    LET area_detectada == DetectarArea(PyLower(query), 1)
        directos == BusquedaDirecta(query, progs)
        porArea == IF area_detectada # Null THEN BusquedaPorArea(area_detectada, progs) ELSE <<>>
    IN  IF directos # <<>> THEN directos
        ELSE IF porArea # <<>> THEN porArea
        ELSE progs

\* Mutant: the area query is made whenever an area was detected, whatever the
\* direct search found.
ConsultaPorAreaSiempre(query, progs) ==
    DetectarArea(PyLower(query), 1) # Null

\* Line 58: `if not programas and area_detectada`, whether the second query
\* (by area) is made.
ConsultaPorArea(query, progs) ==
    BusquedaDirecta(query, progs) = <<>> /\ DetectarArea(PyLower(query), 1) # Null

\* Lines 49-61: the area search replaces an empty direct result when an area
\* was detected.
ProgramasEncontrados(query, progs) ==
    IF ConsultaPorArea(query, progs)
    THEN BusquedaPorArea(DetectarArea(PyLower(query), 1), progs)
    ELSE BusquedaDirecta(query, progs)

\* Lines 86-94: one entry of the bundle's subject list.
MateriaContexto(m) ==
    [nombre |-> m.nombre, tipo |-> m.tipo, horas |-> m.carga_horaria, area |-> m.area_tematica]

\* Line 93: the subjects listed in the bundle.
MateriasListadas(ms) == Take(ms, MAX_MATERIAS_CONTEXTO)

\* Mutant: the subjects are counted after the cut of line 93.
TotalMateriasListadas(ms) == Len(MateriasListadas(ms))

\* Line 95: len(materias).
TotalMaterias(ms) == Len(ms)

\* Lines 70-96: the context bundle of the selected program.
ConstruirContexto(programa, mats) ==
    LET ms == SelectSeq(mats, LAMBDA m : m.programa_id = programa.id)
    IN  [found |-> TRUE,
         nombre |-> programa.nombre,
         tipo |-> programa.tipo,
         director |-> programa.director,
         subdirector |-> programa.subdirector,
         coordinador |-> programa.coordinador,
         email |-> programa.email,
         duracion |-> IF TruthyNum(programa.duracion_anios)
                      THEN [n |-> programa.duracion_anios, text |-> "anios"]
                      ELSE [n |-> <<>>, text |-> "No especificada"],
         carga_horaria |-> IF TruthyNum(programa.carga_horaria_total)
                           THEN [n |-> programa.carga_horaria_total, text |-> "horas"]
                           ELSE [n |-> <<>>, text |-> "No especificada"],
         modalidad |-> IF TruthyText(programa.modalidad) THEN programa.modalidad
                       ELSE <<"N", "o", " ", "e", "s", "p", "e", "c", "i", "f", "i", "c", "a", "d", "a">>,
         horario |-> IF TruthyText(programa.horario_cursada) THEN programa.horario_cursada
                     ELSE <<"N", "o", " ", "e", "s", "p", "e", "c", "i", "f", "i", "c", "a", "d", "o">>,
         objetivos |-> IF TruthyText(programa.objetivos) THEN programa.objetivos
                       ELSE <<"N", "o", " ", "e", "s", "p", "e", "c", "i", "f", "i", "c", "a", "d", "o", "s">>,
         requisitos |-> IF TruthyText(programa.requisitos) THEN programa.requisitos
                        ELSE <<"[", "]">>,
         materias |-> LET listed == MateriasListadas(ms)
                      IN  [i \in 1..Len(listed) |-> MateriaContexto(listed[i])],
         total_materias |-> TotalMaterias(ms)]

\* `return None`
None == [found |-> FALSE]

\* buscar_programa_relevante(query, session): the context bundle of the first
\* row found, or None. `seleccionado` is the primary key of that row (0: none)
\* and `por_area` tells whether the query by area was made.
buscar_programa_relevante(query, progs, mats) ==
    LET encontrados == ProgramasEncontrados(query, progs)
        por_area == ConsultaPorArea(query, progs)
    IN  IF encontrados = <<>>
        THEN [contexto |-> None, seleccionado |-> 0, por_area |-> por_area]
        ELSE [contexto |-> ConstruirContexto(encontrados[1], mats),
              seleccionado |-> encontrados[1].id, por_area |-> por_area]

(***************************************************************************)
(* ai_engine.py: construir_prompt_con_contexto                             *)
(***************************************************************************)
\* Line 119: contexto['materias'][:20].
MAX_MATERIAS_PROMPT == 20

\* Line 113: the fallback contact of the unscoped template.
EmailGeneral == <<"i", "n", "s", "c", "r", "i", "p", "c", "i", "o", "n", "e", "s", "p", "o", "s", "g", "r", "a", "d", "o", "@", "d", "e", "r", "e", "c", "h", "o", ".", "u", "b", "a", ".", "a", "r">>

\* Mutant: the text is rendered whole.
TextoPromptSinCorte(t) ==
    IF t # <<>> THEN t ELSE <<"N", "o", " ", "e", "s", "p", "e", "c", "i", "f", "i", "c", "a", "d", "o", "s">>

\* Lines 142 and 145: `t[:500] if t else 'No especificados'`, t being the
\* bundle's text (never None there: lines 84-85 put a default).
TextoPrompt(t) ==
    IF t # <<>> THEN Take(t, MAX_TEXTO_PROMPT)
    ELSE <<"N", "o", " ", "e", "s", "p", "e", "c", "i", "f", "i", "c", "a", "d", "o", "s">>

\* Line 118: one line of the subject list.
LineaMateria(m) ==
    [nombre |-> PyStr(m.nombre),
     horas |-> IF TruthyNum(m.horas) THEN m.horas ELSE <<>>,
     tipo |-> IF TruthyText(m.tipo) THEN m.tipo ELSE <<>>]

\* Mutant: every subject of the bundle gets a line.
MateriasPromptSinCorte(ms) ==
    ms

\* Line 119: contexto['materias'][:20], the subjects that get a line.
MateriasPrompt(ms) ==
    Take(ms, MAX_MATERIAS_PROMPT)

\* construir_prompt_con_contexto(pregunta, contexto): the template used and
\* the values substituted into it; "raises" when tipo is None (line 126).
construir_prompt_con_contexto(pregunta, contexto) ==
    IF ~contexto.found
    THEN [template |-> "unscoped", pregunta |-> pregunta, email |-> EmailGeneral]
    ELSE IF contexto.tipo = Null
    THEN [template |-> "raises"]
    ELSE [template |-> "scoped",
          nombre |-> PyStr(contexto.nombre),
          tipo |-> PyUpper(contexto.tipo),
          director |-> PyStr(contexto.director),
          subdirector |-> PyStr(contexto.subdirector),
          coordinador |-> PyStr(contexto.coordinador),
          email |-> PyStr(contexto.email),
          duracion |-> contexto.duracion,
          carga_horaria |-> contexto.carga_horaria,
          modalidad |-> contexto.modalidad,
          horario |-> contexto.horario,
          total_materias |-> contexto.total_materias,
          materias_texto |-> LET top == MateriasPrompt(contexto.materias)
                             IN  [i \in 1..Len(top) |-> LineaMateria(top[i])],
          objetivos |-> TextoPrompt(contexto.objetivos),
          requisitos |-> TextoPrompt(contexto.requisitos),
          pregunta |-> pregunta]

(***************************************************************************)
(* ai_engine.py: generar_respuesta                                         *)
(***************************************************************************)
\* Outcomes of the chat-completion call.
GenOutcomes == {"ok", "fail"}

\* Line 175: contexto['nombre'] if contexto else None.
ProgramaRelacionado(contexto) == IF contexto.found THEN contexto.nombre ELSE Null

\* The exception raised inside the try block of generar_respuesta, "none" when
\* there is none: contexto['tipo'].upper() on a NULL tipo (line 126, reached
\* from line 178), or the chat-completion call (line 183).
Excepcion(prompt, gen) ==
    IF prompt.template = "raises" THEN "'NoneType' object has no attribute 'upper'"
    ELSE IF gen = "fail" THEN "Connection error."
    ELSE "none"

\* The exception of the first query of line 173 when init_database never ran
\* on the database file.
SinTablas == "no such table: programas"

\* Line 208: the tuple returned when the try block raised `excepcion`.
RespuestaDeError(excepcion) ==
    [respuesta |-> <<"Error al procesar tu pregunta: ", excepcion>>,
     programa_relacionado |-> Null, tokens_usados |-> 0]

\* generar_respuesta, lines 175-208, given the retrieval result and the prompt
\* of lines 173 and 178: (respuesta, programa_relacionado, tokens_usados); any
\* exception of the try block gives the tuple of line 208, whose text is the
\* fixed part followed by str(e). The text is the sequence of its parts.
generar_respuesta(busqueda, prompt, gen) ==
        IF Excepcion(prompt, gen) # "none"
        THEN RespuestaDeError(Excepcion(prompt, gen))
        ELSE [respuesta |-> <<"content">>,
              programa_relacionado |-> ProgramaRelacionado(busqueda.contexto),
              tokens_usados |-> 1]

(***************************************************************************)
(* Questions                                                               *)
(***************************************************************************)
\* The words questions are made of.
Palabras ==
    { <<"p", "e", "n", "a", "l">>,
      <<"f", "a", "m", "i", "l", "i", "a">>,
      <<"D", "o", "n", "n", "a">>,
      <<"h", "o", "l", "a">>,
      <<"d", "e", "l", "i", "t", "o">> }

\* Questions of up to n different words separated by blanks.
RECURSIVE Frases(_)
Frases(n) ==
    IF n = 0 THEN {<<>>}
    ELSE LET shorter == Frases(n - 1)
         IN  shorter \cup Palabras
                     \cup UNION {{f \o <<" ">> \o w : w \in {x \in Palabras : ~Contains(x, f)}} :
                                  f \in shorter \ {<<>>}}

\* Questions that are not made of those words: an upper-case accented keyword,
\* a surname that contains an area keyword, and the LIKE wildcards.
PreguntasEspeciales ==
    { <<"A", "D", "O", "P", "C", "I", "O'", "N">>,
      <<"P", "e", "n", "a", "l", "v", "a">>,
      <<"%">>,
      <<"d", "_", "n", "n", "a">> }

PreguntasRAG == Frases(MaxPalabras) \cup PreguntasEspeciales

(***************************************************************************)
(* The functions of ai_engine.py on given stores (SpecPrompt)              *)
(***************************************************************************)
\* What a call of generar_respuesta(q) computes on the tables progs and mats
\* when nothing else touches them: the retrieval result (line 173), the
\* prompt (line 178), the exception of the try block and the tuple returned.
Respuesta(q, gen, progs, mats) ==
    LET busqueda == buscar_programa_relevante(q, progs, mats)
        prompt == construir_prompt_con_contexto(q, busqueda.contexto)
    IN  [op |-> "generar_respuesta", pregunta |-> q,
         busqueda |-> busqueda,
         prompt |-> prompt,
         excepcion |-> Excepcion(prompt, gen),
         resultado |-> generar_respuesta(busqueda, prompt, gen)]

\* The tables after the programs of `cands` were scraped and saved in turn,
\* every page fetched and every commit done.
RECURSIVE Almacen(_)
Almacen(cands) ==
    IF cands = <<>> THEN [programas |-> <<>>, materias |-> <<>>]
    ELSE LET antes == Almacen(SubSeq(cands, 1, Len(cands) - 1))
             ultimo == cands[Len(cands)]
         IN  Guardado(antes.programas, antes.materias, ultimo, TodasLasPaginas, 1 + ultimo.n)

\* The stores the functions are applied to: up to MaxProgramas saved programs,
\* in any order, the same one possibly more than once; no save and no call
\* is under way.
InitPrompt ==
    /\ InitCache
    /\ InitScraper
    /\ tablas = TRUE
    /\ \E n \in 0..MaxProgramas :
          \E cands \in [1..n -> Candidatos] :
              /\ programas = Almacen(cands).programas
              /\ materias = Almacen(cands).materias
    /\ consultas = <<>>
    /\ guardando = NoGuardado
    /\ llamadas = [k \in Llamadas |-> NoLlamada]
    /\ ret = NoRet

\* buscar_programa_relevante, construir_prompt_con_contexto and the tuple of
\* generar_respuesta, applied to one question on the store as it is. They
\* change nothing in the store, so a behaviour applies them once: a second
\* application would start from the same tables.
AplicarFunciones(q, gen) ==
    /\ ret = NoRet
    /\ ret' = Respuesta(q, gen, programas, materias)
    /\ UNCHANGED <<tablas, programas, materias, consultas, guardando, llamadas>>
    /\ UNCHANGED <<cacheVars, scraperVars>>

NextPrompt ==
    \E q \in PreguntasRAG, gen \in GenOutcomes : AplicarFunciones(q, gen)

SpecPrompt == InitPrompt /\ [][NextPrompt]_vars

(***************************************************************************)
(* The scraper's saves and the chatbot's calls on one database file        *)
(* (SpecRAG)                                                               *)
(***************************************************************************)
\* The programs saved while calls are answered: two of the programs above,
\* with short texts and few subjects on their pages.
CandidatosRAG ==
    { [datos |-> [DatosPenal EXCEPT !.objetivos = DatosPenalJuvenil.objetivos],
       sigla |-> "p", n |-> 2, tipo_materia |-> Optativa],
      [datos |-> [DatosPenalJuvenil EXCEPT !.requisitos = Null],
       sigla |-> "j", n |-> 1, tipo_materia |-> Troncal] }

\* The question asked while programs are saved: it matches nothing in the
\* empty tables, and a director and a coordinator once they are saved.
PreguntasConcurrentes ==
    { <<"D", "o", "n", "n", "a">> }

\* scrape_todo, line 325: init_database creates the tables.
InitDatabase ==
    /\ ~tablas
    /\ tablas' = TRUE
    /\ ret' = NoRet
    /\ UNCHANGED <<programas, materias, consultas, guardando, llamadas>>
    /\ UNCHANGED <<cacheVars, scraperVars>>

\* scrape_programa_completo, line 305: agregar_programa commits the row of a
\* scraped program; the subjects follow one commit each. (When this first
\* commit raises, the handler of line 315 leaves the file as it was.)
AgregarPrograma(cand) ==
    /\ tablas
    /\ guardando = NoGuardado
    /\ Len(programas) < MaxProgramas
    /\ programas' = agregar_programa(programas, FilaScrapeada(cand, TodasLasPaginas))
    /\ guardando' = IF MateriasScrapeadas(cand, TodasLasPaginas).n = 0 THEN NoGuardado
                    ELSE [pc |-> "materias", programa_id |-> Len(programas) + 1,
                          materias |-> MateriasScrapeadas(cand, TodasLasPaginas), k |-> 1]
    /\ ret' = NoRet
    /\ UNCHANGED <<tablas, materias, consultas, llamadas>>
    /\ UNCHANGED <<cacheVars, scraperVars>>

\* scrape_programa_completo, lines 309-310: agregar_materia commits the next
\* subject; after the last one the save is over.
AgregarMateria ==
    /\ guardando # NoGuardado
    /\ materias' = agregar_materia(materias, guardando.programa_id,
                                   MateriaDatos(guardando.materias.sigla, guardando.k,
                                                guardando.materias.tipo_materia))
    /\ guardando' = IF guardando.k = guardando.materias.n THEN NoGuardado
                    ELSE [guardando EXCEPT !.k = @ + 1]
    /\ ret' = NoRet
    /\ UNCHANGED <<tablas, programas, consultas, llamadas>>
    /\ UNCHANGED <<cacheVars, scraperVars>>

\* scrape_programa_completo, lines 315-317: the commit of the next subject
\* raises; the save ends and what was committed stays.
GuardadoFalla ==
    /\ guardando # NoGuardado
    /\ guardando' = NoGuardado
    /\ ret' = NoRet
    /\ UNCHANGED <<tablas, programas, materias, consultas, llamadas>>
    /\ UNCHANGED <<cacheVars, scraperVars>>

\* The subject a caller other than the scraper adds.
MateriaSuelta == MateriaDatos("x", 1, Troncal)

\* The rows of materias that were added by such a caller.
Sueltas(mats) == {i \in 1..Len(mats) : mats[i].nombre = MateriaSuelta.nombre}

\* database.py, lines 120-135: agregar_materia is public; a call by another
\* caller adds a subject for any programa_id, also between two commits of a
\* save: nothing checks that the program is stored (SQLite enforces no
\* foreign key here), and the subject belongs to the row that has or later
\* gets that id.
AgregarMateriaSuelta(programa_id) ==
    /\ tablas
    /\ Cardinality(Sueltas(materias)) < MaxSueltas
    /\ materias' = agregar_materia(materias, programa_id, MateriaSuelta)
    /\ ret' = NoRet
    /\ UNCHANGED <<tablas, programas, consultas, guardando, llamadas>>
    /\ UNCHANGED <<cacheVars, scraperVars>>

\* The questions another caller logs.
PreguntasRegistradas == { <<"h", "o", "l", "a">> }

\* database.py, lines 137-147: registrar_consulta is public; a call logs a
\* question and its answer.
RegistrarConsulta(q) ==
    /\ tablas
    /\ Len(consultas) < MaxSueltas
    /\ consultas' = registrar_consulta(consultas, q, <<"content">>, Null, 0, 1)
    /\ ret' = NoRet
    /\ UNCHANGED <<tablas, programas, materias, guardando, llamadas>>
    /\ UNCHANGED <<cacheVars, scraperVars>>

\* generar_respuesta, lines 170-183: the store is read, the prompt is built
\* and the coroutine suspends in the chat-completion call; without tables the
\* query raises and line 208 returns at once.
GenerarRespuesta(k, q) ==
    /\ llamadas[k] = NoLlamada
    /\ IF tablas
       THEN LET busqueda == buscar_programa_relevante(q, programas, materias)
                prompt == construir_prompt_con_contexto(q, busqueda.contexto)
            IN  IF prompt.template = "raises"
                THEN /\ ret' = [op |-> "generar_respuesta", pregunta |-> q,
                                busqueda |-> busqueda, prompt |-> prompt,
                                excepcion |-> Excepcion(prompt, "ok"),
                                resultado |-> RespuestaDeError(Excepcion(prompt, "ok"))]
                     /\ UNCHANGED llamadas
                ELSE /\ llamadas' = [llamadas EXCEPT ![k] =
                                        [pc |-> "await", pregunta |-> q,
                                         busqueda |-> busqueda, prompt |-> prompt]]
                     /\ ret' = NoRet
       ELSE /\ ret' = [op |-> "generar_respuesta", pregunta |-> q,
                       busqueda |-> [contexto |-> None, seleccionado |-> 0, por_area |-> FALSE],
                       prompt |-> [template |-> "none"],
                       excepcion |-> SinTablas,
                       resultado |-> RespuestaDeError(SinTablas)]
            /\ UNCHANGED llamadas
    /\ UNCHANGED <<tablas, programas, materias, consultas, guardando>>
    /\ UNCHANGED <<cacheVars, scraperVars>>

\* generar_respuesta, lines 183-208: the chat-completion call answers or
\* raises, and the tuple is returned.
ServicioResponde(k, gen) ==
    /\ llamadas[k] # NoLlamada
    /\ ret' = [op |-> "generar_respuesta", pregunta |-> llamadas[k].pregunta,
               busqueda |-> llamadas[k].busqueda,
               prompt |-> llamadas[k].prompt,
               excepcion |-> Excepcion(llamadas[k].prompt, gen),
               resultado |-> generar_respuesta(llamadas[k].busqueda, llamadas[k].prompt, gen)]
    /\ llamadas' = [llamadas EXCEPT ![k] = NoLlamada]
    /\ UNCHANGED <<tablas, programas, materias, consultas, guardando>>
    /\ UNCHANGED <<cacheVars, scraperVars>>

NextRAG ==
    \/ InitDatabase
    \/ \E cand \in CandidatosRAG : AgregarPrograma(cand)
    \/ AgregarMateria
    \/ GuardadoFalla
    \/ \E programa_id \in 1..MaxProgramas : AgregarMateriaSuelta(programa_id)
    \/ \E q \in PreguntasRegistradas : RegistrarConsulta(q)
    \/ \E k \in Llamadas, q \in PreguntasConcurrentes : GenerarRespuesta(k, q)
    \/ \E k \in Llamadas, gen \in GenOutcomes : ServicioResponde(k, gen)

SpecRAG == Init /\ [][NextRAG]_vars

(***************************************************************************)
(* scraper_complete.py (SpecScraper)                                       *)
(***************************************************************************)
\* Programs of the configured lists that the batch goes through.
NumLista == 2

\* Lines 19-68 and 333-342: the identities in batch order, each with the
\* content its pages have (n: the subjects on the curriculum page, all of the
\* kind tipo_materia).
ListaConfigurada ==
    << [datos |-> DatosPenal, sigla |-> "p", n |-> 2, tipo_materia |-> Optativa],
       [datos |-> DatosFamilia, sigla |-> "f", n |-> 1, tipo_materia |-> Troncal],
       [datos |-> DatosPenalJuvenil, sigla |-> "j", n |-> 1, tipo_materia |-> Troncal] >>

Lista == SubSeq(ListaConfigurada, 1, NumLista)

\* What one attempt of fetch_url can meet:
\*   "200"    status 200 and a page the extractors handle
\*   "200vacio"  status 200 and an empty body
\*   "200x"   status 200 and a page on which the extraction raises: the
\*            parser of lines 121, 196, 239, 264 on markup it rejects, or
\*            int() of lines 83, 205, 218 on a run of more than 4300 digits
\*   "404"    status 404
\*   "500"    any other status
\*   "error"  an exception inside the try block (timeout, connection error)
AttemptOutcomes == {"200", "200vacio", "200x", "404", "500", "error"}

\* fetch_url returned None as the page.
Ausente == "None"

\* fetch_url returned the empty text as the page.
Vacio == ""

\* Lines 118, 193, 236, 261: `if not html`.
SinPagina(html) == html \in {Ausente, Vacio}

\* Mutant: the loop of fetch_url runs four times.
QuedanIntentosCuatro(intento) == intento + 1 < 4

\* Line 98, range(3): another iteration follows the one numbered intento.
QuedanIntentos(intento) == intento + 1 < 3

\* Mutant: a 404 is handled like any other status.
fetch_url_intento_sin_404(intento, out) ==
    IF out \in {"200", "200x"}
    THEN [fin |-> TRUE, espera |-> FALSE, html |-> out, status |-> 200]
    ELSE IF out = "200vacio"
    THEN [fin |-> TRUE, espera |-> FALSE, html |-> Vacio, status |-> 200]
    ELSE IF out = "error"
    THEN IF intento = 2
         THEN [fin |-> TRUE, espera |-> FALSE, html |-> Ausente, status |-> 0]
         ELSE [fin |-> FALSE, espera |-> TRUE, html |-> Ausente, status |-> 0]
    ELSE IF QuedanIntentos(intento)
         THEN [fin |-> FALSE, espera |-> FALSE, html |-> Ausente, status |-> 0]
         ELSE [fin |-> TRUE, espera |-> FALSE, html |-> Ausente, status |-> 0]

\* fetch_url, lines 99-111: one iteration of the loop. fin: the function
\* returns (html, status); espera: it suspends in asyncio.sleep(2) (line 110);
\* neither: the loop goes on at once (a status that is neither 200 nor 404
\* matches no branch), and falls out to line 111 after the last iteration.
fetch_url_intento(intento, out) ==
    IF out \in {"200", "200x"}
    THEN [fin |-> TRUE, espera |-> FALSE, html |-> out, status |-> 200]
    ELSE IF out = "200vacio"
    THEN [fin |-> TRUE, espera |-> FALSE, html |-> Vacio, status |-> 200]
    ELSE IF out = "404"
    THEN [fin |-> TRUE, espera |-> FALSE, html |-> Ausente, status |-> 404]
    ELSE IF out = "error"
    THEN IF intento = 2
         THEN [fin |-> TRUE, espera |-> FALSE, html |-> Ausente, status |-> 0]
         ELSE [fin |-> FALSE, espera |-> TRUE, html |-> Ausente, status |-> 0]
    ELSE IF QuedanIntentos(intento)
         THEN [fin |-> FALSE, espera |-> FALSE, html |-> Ausente, status |-> 0]
         ELSE [fin |-> TRUE, espera |-> FALSE, html |-> Ausente, status |-> 0]

\* scrape_todo, lines 333-334 and 341-342: scrape_programa_completo is called
\* for the identity at position idx, up to the first session.get.
EmpezarPrograma(sc, idx) ==
    [pc |-> "get", idx |-> idx, pagina |-> 1, intento |-> 0, vistos |-> <<>>, esperas |-> 0,
     res |-> sc.res, paginas |-> <<>>, guardado |-> "no", commits |-> 0, programa_id |-> 0,
     sesion |-> sc.sesion, intentados |-> Append(sc.intentados, idx)]

\* What follows the return of fetch_url for the current page, up to the next
\* await or the first commit: the extraction of the page, then the fetch of
\* the next page, the save, or the pause of scrape_todo.
\*   - the extractor raises: nothing handles it, scrape_todo is over;
\*   - main page absent or empty: scrape_programa_completo returns None
\*     (lines 284-286);
\*   - pages 2 to 4 absent or empty: the fields are left out and the next
\*     step follows;
\*   - after the last page the save of lines 304-314 begins.
scrape_programa_completo(sc, res) ==
    LET pags == Append(sc.paginas, IF SinPagina(res.html) THEN "ausente" ELSE "ok")
        visto == [sc EXCEPT !.res = res, !.paginas = pags, !.vistos = <<>>,
                            !.esperas = 0, !.intento = 0]
    IN  IF res.html = "200x"
        THEN [visto EXCEPT !.pc = "abortado"]
        ELSE IF sc.pagina = 1 /\ SinPagina(res.html)
        THEN [visto EXCEPT !.pc = "pausa"]
        ELSE IF sc.pagina < Len(Paginas)
        THEN [visto EXCEPT !.pc = "get", !.pagina = @ + 1]
        ELSE [visto EXCEPT !.pc = "guardar"]

\* scrape_todo is started (lines 319-334): init_database creates the tables.
ScrapeTodo ==
    /\ scraper.pc = "idle"
    /\ scraper' = EmpezarPrograma(scraper, 1)
    /\ tablas' = TRUE
    /\ UNCHANGED <<programas, materias, consultas, guardando, llamadas, ret>>
    /\ UNCHANGED cacheVars

\* The pending session.get of fetch_url completes with outcome `out`; when
\* fetch_url returns, the caller runs on to its next await or to the save.
FetchAttempt(out) ==
    /\ scraper.pc = "get"
    /\ LET paso == fetch_url_intento(scraper.intento, out)
           vistos == Append(scraper.vistos, out)
       IN  IF paso.fin
           THEN scraper' = scrape_programa_completo(
                               scraper,
                               [html |-> paso.html, status |-> paso.status,
                                vistos |-> vistos, esperas |-> scraper.esperas])
           ELSE scraper' = [scraper EXCEPT !.vistos = vistos,
                                           !.pc = IF paso.espera THEN "backoff" ELSE "get",
                                           !.intento = IF paso.espera THEN @ ELSE @ + 1]
    /\ UNCHANGED <<tablas, programas, materias, consultas, guardando, llamadas, ret>>
    /\ UNCHANGED cacheVars

\* asyncio.sleep(2) of line 110 returns: the next iteration issues its
\* session.get, or the loop is over and line 111 returns (None, 0).
FinBackoff ==
    /\ scraper.pc = "backoff"
    /\ IF QuedanIntentos(scraper.intento)
       THEN scraper' = [scraper EXCEPT !.pc = "get", !.intento = @ + 1, !.esperas = @ + 1]
       ELSE scraper' = scrape_programa_completo(
                           scraper,
                           [html |-> Ausente, status |-> 0,
                            vistos |-> scraper.vistos, esperas |-> scraper.esperas + 1])
    /\ UNCHANGED <<tablas, programas, materias, consultas, guardando, llamadas, ret>>
    /\ UNCHANGED cacheVars

\* scrape_programa_completo, line 305: agregar_programa commits the row; with
\* no subject to save the function returns the id (line 314).
GuardaPrograma ==
    /\ scraper.pc = "guardar"
    /\ scraper.commits = 0
    /\ programas' = agregar_programa(programas, FilaScrapeada(Lista[scraper.idx], scraper.paginas))
    /\ LET fin == MateriasScrapeadas(Lista[scraper.idx], scraper.paginas).n = 0
       IN  scraper' = [scraper EXCEPT !.commits = 1,
                                      !.programa_id = Len(programas) + 1,
                                      !.pc = IF fin THEN "pausa" ELSE "guardar",
                                      !.guardado = IF fin THEN "ok" ELSE @]
    /\ UNCHANGED <<tablas, materias, consultas, guardando, llamadas, ret>>
    /\ UNCHANGED cacheVars

\* scrape_programa_completo, lines 309-310: agregar_materia commits the next
\* subject; after the last one the function returns the id (line 314).
GuardaMateria ==
    /\ scraper.pc = "guardar"
    /\ scraper.commits > 0
    /\ LET ms == MateriasScrapeadas(Lista[scraper.idx], scraper.paginas)
           fin == scraper.commits = ms.n
       IN  /\ materias' = agregar_materia(materias, scraper.programa_id,
                                          MateriaDatos(ms.sigla, scraper.commits, ms.tipo_materia))
           /\ scraper' = [scraper EXCEPT !.commits = @ + 1,
                                          !.pc = IF fin THEN "pausa" ELSE "guardar",
                                          !.guardado = IF fin THEN "ok" ELSE @]
    /\ UNCHANGED <<tablas, programas, consultas, guardando, llamadas, ret>>
    /\ UNCHANGED cacheVars

\* scrape_programa_completo, lines 315-317: the next commit raises; the
\* handler returns None without rolling db_session back, and what was
\* committed stays.
GuardaFalla ==
    /\ scraper.pc = "guardar"
    /\ scraper' = [scraper EXCEPT !.pc = "pausa", !.guardado = "falla", !.sesion = "fallida"]
    /\ UNCHANGED <<tablas, programas, materias, consultas, guardando, llamadas, ret>>
    /\ UNCHANGED cacheVars

\* asyncio.sleep(0.5) of lines 335 and 343 returns: the next identity is
\* taken, or the loops are over and the statistics are printed (lines
\* 349-357). Nothing catches what raises there: get_stats(db_session) of line
\* 350 on a session that a failed commit left without rollback, and the
\* division of line 357 by the number of rows of programas when there is none.
FinPausa ==
    /\ scraper.pc = "pausa"
    /\ scraper' = IF scraper.idx < Len(Lista)
                  THEN EmpezarPrograma(scraper, scraper.idx + 1)
                  ELSE IF scraper.sesion = "fallida" \/ Len(programas) = 0
                  THEN [scraper EXCEPT !.pc = "abortado"]
                  ELSE [scraper EXCEPT !.pc = "done"]
    /\ UNCHANGED <<tablas, programas, materias, consultas, guardando, llamadas, ret>>
    /\ UNCHANGED cacheVars

NextScraper ==
    \/ ScrapeTodo
    \/ \E out \in AttemptOutcomes : FetchAttempt(out)
    \/ FinBackoff
    \/ GuardaPrograma
    \/ GuardaMateria
    \/ GuardaFalla
    \/ FinPausa

SpecScraper == Init /\ [][NextScraper]_vars

\* The scheduler runs the coroutine whenever it can take a step.
SpecScraperFair == SpecScraper /\ WF_vars(NextScraper)

Next == NextCache \/ NextPrompt \/ NextRAG \/ NextScraper

Spec == Init /\ [][Next]_vars

(***************************************************************************)
(* Claims about the scraping cache (SpecCache)                             *)
(***************************************************************************)
\* The entry is populated and its capture timestamp is ttl_hours old or older.
EntryStale ==
    /\ scraping_cache.data # EmptyText
    /\ scraping_cache.timestamp # NoTimestamp
    /\ now - scraping_cache.timestamp >= ttl_hours

\* The entry is populated and strictly younger than ttl_hours.
EntryFresh ==
    /\ scraping_cache.data # EmptyText
    /\ scraping_cache.timestamp # NoTimestamp
    /\ now - scraping_cache.timestamp < ttl_hours

\* A call completes in this step without its coroutine ever having suspended:
\* no fetch was issued by it.
AnsweredWithoutFetch(op) ==
    /\ last'.flip # last.flip
    /\ last'.op = op
    /\ task' = task

\* C1: a get_context call made while the cached entry is 24 hours old or older
\* performs a refresh before any value is returned; a stale entry is never
\* served without a refresh attempt in that call.
C1_StaleNeverServedUnrefreshed ==
    [][EntryStale => ~(AnsweredWithoutFetch("consultar") /\ last'.status = 200)]_vars

\* C2: every call of POST /refresh-cache re-fetches the URLs and replaces the
\* cached value and timestamp, whatever the entry's age: a successful response
\* is produced only by the step that ends a fetch loop and writes the cache.
C2_ForcedRefreshAlwaysFetches ==
    [][(last'.flip # last.flip /\ last'.op = "refresh_cache" /\ last'.status = 200)
         => \E c \in Callers : /\ task[c].pc = "sleep"
                               /\ task'[c].pc = "idle"
                               /\ scraping_cache'.timestamp = now]_vars

\* C3: at most one refresh (one batch of URL fetches) is in flight at any time.
C3_SingleRefreshInFlight ==
    Cardinality({c \in Callers : task[c].pc # "idle"}) <= 1

\* C4: a populated cached value is never lost by a refresh, also when every
\* URL fails: once the cache holds a non-empty value it keeps holding one.
C4_PopulatedValueNeverLost ==
    [][scraping_cache.data # EmptyText => scraping_cache'.data # EmptyText]_vars

\* C5: when a refresh raises an error that is not handled per URL, the cached
\* value and timestamp stay as they were, and the caller of get_context gets
\* the previous value rather than an error.
C5_RefreshErrorServesPrevious ==
    [][\A c \in Callers, exc \in Excepciones :
          ScrapeRaises(c, exc) =>
            /\ scraping_cache' = scraping_cache
            /\ task[c].op = "consultar" =>
                 (last'.status = 200 /\ last'.ctx = scraping_cache.data)]_vars

\* The step issues a session.get to a configured URL.
IssuesFetch == \E c \in Tasks : task'[c] # task[c] /\ task'[c].pc = "get"

\* C6: while the entry is populated and younger than 24 hours, no call of
\* get_context or scrape_uba issues a fetch to the configured URLs, value and
\* timestamp stay as they are, and a call that is answered returns the cached
\* value. At an age of 24 hours or more a scrape_uba call (refresh_cache) is
\* never answered from the cache and does start fetching.
C6_FreshNeverRefetched ==
    /\ [][EntryFresh =>
            /\ ~IssuesFetch
            /\ scraping_cache' = scraping_cache
            /\ (/\ last'.flip # last.flip /\ last'.status = 200
                /\ last'.op \in {"consultar", "refresh_cache"}) =>
                 last'.ctx = scraping_cache.data]_vars
    /\ [][EntryStale => ~AnsweredWithoutFetch("refresh_cache")]_vars
    /\ [](\A c \in Callers :
            (EntryStale /\ task[c].pc = "idle") => ENABLED RefreshCacheScrape(c))

(***************************************************************************)
(* Claims about retrieval and prompt assembly (SpecPrompt, SpecRAG)        *)
(***************************************************************************)
\* The least element of a non-empty set of numbers.
Minimo(S) == CHOOSE x \in S : \A y \in S : x <= y

\* The positions of the area table that have a keyword occurring in the
\* lower-cased question.
AreasMencionadas(q) ==
    LET ql == PyLower(q)
    IN  {i \in 1..Len(areas) :
            \E k \in 1..Len(areas[i].keywords) : Contains(areas[i].keywords[k], ql)}

\* The rows, by position, whose name contains the tag (letter case ignored).
NombradosPor(tag) ==
    {j \in 1..Len(programas) :
        programas[j].nombre # Null /\ Contains(tag, SqlLower(programas[j].nombre))}

\* The subjects of table materias owned by the program, in table order.
RECURSIVE MateriasDe(_, _)
MateriasDe(ms, programa_id) ==
    IF ms = <<>> THEN <<>>
    ELSE (IF Head(ms).programa_id = programa_id THEN <<Head(ms)>> ELSE <<>>)
         \o MateriasDe(Tail(ms), programa_id)

\* C7: for every store and every question that contains the exact director
\* name of a stored program as a substring, buscar_programa_relevante returns
\* a context for a program with that director, never none.
C7_DirectorNameInQuestionFound ==
    ret.op = "generar_respuesta" =>
        \A i \in 1..Len(programas) :
            LET d == programas[i].director
            IN  (d # Null /\ d # <<>> /\ Contains(d, ret.pregunta)) =>
                    /\ ret.busqueda.contexto.found
                    /\ ret.busqueda.contexto.director = d

\* C8: when no row direct-matches the question and the question contains a
\* keyword of the area table, the area is the first table entry with a keyword
\* in the lower-cased question, and the result is the first row in store order
\* whose name contains that tag, or none when no name contains it.
C8_AreaFallbackFirstTagFirstRow ==
    (/\ ret.op = "generar_respuesta"
     /\ BusquedaDirecta(ret.pregunta, programas) = <<>>
     /\ AreasMencionadas(ret.pregunta) # {}) =>
        LET mencionadas == AreasMencionadas(ret.pregunta)
            tag == areas[Minimo(mencionadas)].area
            named == NombradosPor(tag)
        IN  IF named = {}
            THEN ret.busqueda.contexto = None /\ ret.busqueda.seleccionado = 0
            ELSE /\ ret.busqueda.contexto.found
                 /\ ret.busqueda.seleccionado = programas[Minimo(named)].id
                 /\ ret.busqueda.contexto.nombre = programas[Minimo(named)].nombre

\* C8 witness: the question names a family-law and a criminal-law term, in
\* that order; the family program is stored first and the criminal one is
\* returned.
C8_Witness ==
    /\ ret.op = "generar_respuesta"
    /\ BusquedaDirecta(ret.pregunta, programas) = <<>>
    /\ AreasMencionadas(ret.pregunta) = {1, 4}
    /\ Len(programas) = 2
    /\ programas[1].nombre = DatosFamilia.nombre
    /\ ret.busqueda.seleccionado = 2
    /\ ret.busqueda.contexto.nombre = DatosPenal.nombre

\* C9: a question that direct-matches no row and contains no area keyword gets
\* none from buscar_programa_relevante, the unscoped template (the question
\* and the fixed fallback contact) from construir_prompt_con_contexto, and no
\* matched program from generar_respuesta.
C9_NoMatchGivesUnscoped ==
    (/\ ret.op = "generar_respuesta"
     /\ BusquedaDirecta(ret.pregunta, programas) = <<>>
     /\ AreasMencionadas(ret.pregunta) = {}) =>
        /\ ret.busqueda.contexto = None
        /\ ret.prompt = [template |-> "unscoped", pregunta |-> ret.pregunta,
                         email |-> EmailGeneral]
        /\ ret.resultado.programa_relacionado = Null

\* C9 witness: a non-empty store, a question with no keyword and no direct
\* match, answered by the generation service from the unscoped prompt.
C9_Witness ==
    /\ ret.op = "generar_respuesta"
    /\ Len(programas) = 2
    /\ BusquedaDirecta(ret.pregunta, programas) = <<>>
    /\ AreasMencionadas(ret.pregunta) = {}
    /\ ret.pregunta # <<>>
    /\ ret.prompt.template = "unscoped"
    /\ ret.resultado.tokens_usados > 0

\* C10: for the selected program with n owned subjects, the bundle lists the
\* first min(n, 30) of them in store order, and total_materias is n in the
\* bundle and in the rendered prompt.
C10_SubjectsCappedTotalTrue ==
    (ret.op = "generar_respuesta" /\ ret.busqueda.contexto.found) =>
        LET owned == MateriasDe(materias, ret.busqueda.seleccionado)
            n == Len(owned)
            listed == ret.busqueda.contexto.materias
        IN  /\ Len(listed) = IF n < MAX_MATERIAS_CONTEXTO THEN n ELSE MAX_MATERIAS_CONTEXTO
            /\ \A k \in 1..Len(listed) :
                   /\ listed[k].nombre = owned[k].nombre
                   /\ listed[k].tipo = owned[k].tipo
                   /\ listed[k].horas = owned[k].carga_horaria
            /\ ret.busqueda.contexto.total_materias = n
            /\ ret.prompt.template = "scoped" => ret.prompt.total_materias = n

\* C10 witness: the program stored second, with more than 30 subjects, is
\* selected; its bundle lists 30 and the prompt states the full count.
C10_Witness ==
    /\ ret.op = "generar_respuesta"
    /\ ret.busqueda.seleccionado = 2
    /\ Len(MateriasDe(materias, 1)) > 0
    /\ Len(MateriasDe(materias, 2)) > MAX_MATERIAS_CONTEXTO
    /\ Len(ret.busqueda.contexto.materias) = MAX_MATERIAS_CONTEXTO
    /\ ret.prompt.template = "scoped"
    /\ ret.prompt.total_materias = Len(MateriasDe(materias, 2))

\* s is the beginning of t.
EsPrefijo(s, t) == Len(s) <= Len(t) /\ SubSeq(t, 1, Len(s)) = s

\* The row of table programas a retrieval selected.
FilaSeleccionada == programas[ret.busqueda.seleccionado]

\* C11: in every scoped prompt the objectives text and the requirements text
\* are at most 500 characters long, each is the beginning of the bundle's
\* value, and of the stored column whenever the column holds a text.
C11_ObjectivesRequirementsCut ==
    (ret.op = "generar_respuesta" /\ ret.prompt.template = "scoped") =>
        /\ Len(ret.prompt.objetivos) <= 500
        /\ Len(ret.prompt.requisitos) <= 500
        /\ EsPrefijo(ret.prompt.objetivos, ret.busqueda.contexto.objetivos)
        /\ EsPrefijo(ret.prompt.requisitos, ret.busqueda.contexto.requisitos)
        /\ TruthyText(FilaSeleccionada.objetivos) =>
              EsPrefijo(ret.prompt.objetivos, FilaSeleccionada.objetivos)
        /\ TruthyText(FilaSeleccionada.requisitos) =>
              EsPrefijo(ret.prompt.requisitos, FilaSeleccionada.requisitos)

\* C11 witness: a scoped prompt for a row whose objectives are longer than 500
\* characters, rendered with exactly 500.
C11_Witness ==
    /\ ret.op = "generar_respuesta"
    /\ ret.prompt.template = "scoped"
    /\ Len(FilaSeleccionada.objetivos) > 500
    /\ Len(ret.prompt.objetivos) = 500
    /\ ret.prompt.objetivos # ret.busqueda.contexto.objetivos

\* C15: the record store holds at most one row of programas per identity
\* (nombre_corto), however many times programs were scraped and saved.
C15_IdentityUnique ==
    \A i, j \in 1..Len(programas) :
        programas[i].nombre_corto = programas[j].nombre_corto => i = j

\* C16: every served question (a call of generar_respuesta that returns an
\* answer of the generation service) appends exactly one row to consultas,
\* and no step updates or deletes a row already there.
C16_OneLogEntryPerServedQuestion ==
    [][/\ Len(consultas') >= Len(consultas)
       /\ SubSeq(consultas', 1, Len(consultas)) = consultas
       /\ \A k \in Llamadas :
             (/\ llamadas[k] # NoLlamada
              /\ llamadas'[k] = NoLlamada
              /\ ret'.op = "generar_respuesta"
              /\ ret'.excepcion = "none") =>
                 Len(consultas') = Len(consultas) + 1]_vars

\* C18: whenever something raises inside generar_respuesta the caller gets a
\* fixed generic answer and 0 tokens, and the answer does not contain the
\* message of the exception.
C18_DegradedAnswerHidesError ==
    (ret.op = "generar_respuesta" /\ ret.excepcion # "none") =>
        /\ ret.resultado.tokens_usados = 0
        /\ Len(ret.resultado.respuesta) = 1
        /\ \A i \in 1..Len(ret.resultado.respuesta) :
              ret.resultado.respuesta[i] # ret.excepcion

\* C17: a call of the question endpoint whose question has fewer than 3
\* characters once trimmed is answered 400 by a step that reads no context,
\* produces no answer, starts no refresh and leaves the cache as it was; no
\* refresh in progress was started by such a question.
C17_ShortQuestionRejectedFirst ==
    /\ [][(last'.flip # last.flip /\ last'.op = "consultar" /\ last'.corta) =>
             /\ last'.status = 400
             /\ last'.ctx = EmptyText
             /\ last'.respuesta = "none"
             /\ scraping_cache' = scraping_cache
             /\ task' = task]_vars
    /\ [](\A c \in Callers : ~task[c].corta)

\* C17 witness: a blank-padded question of 2 characters was rejected while the
\* cache held a value the endpoint could have read.
C17_Witness ==
    /\ last.op = "consultar"
    /\ last.corta
    /\ last.status = 400
    /\ scraping_cache.data # EmptyText

(***************************************************************************)
(* Claims on the scraper (SpecScraper)                                     *)
(***************************************************************************)
\* The number of attempts among the first n of v that failed at network level.
FallasDeRed(v, n) == Cardinality({i \in 1..n : v[i] = "error"})

\* C12: an attempt of fetch_url that receives 404 ends the call at once with
\* (None, 404), whichever attempt it was: a 404 is always the last thing a
\* call saw, the call is never left running or sleeping after it, and the
\* only backoffs of the call are those of the network failures before it.
C12_NotFoundIsTerminal ==
    /\ \A i \in 1..Len(scraper.vistos) : scraper.vistos[i] # "404"
    /\ LET v == scraper.res.vistos
       IN  /\ \A i \in 1..(Len(v) - 1) : v[i] # "404"
           /\ (v # <<>> /\ v[Len(v)] = "404") =>
                 /\ scraper.res.html = Ausente
                 /\ scraper.res.status = 404
                 /\ scraper.res.esperas = FallasDeRed(v, Len(v) - 1)

\* C12 witness: the third attempt of a call saw the 404, after one attempt
\* that failed at network level and one with another status.
C12_Witness ==
    /\ Len(scraper.res.vistos) = 3
    /\ scraper.res.vistos[3] = "404"
    /\ scraper.res.vistos[1] = "error"
    /\ scraper.res.status = 404
    /\ scraper.res.html = Ausente
    /\ scraper.res.esperas = 1

\* C13: a call of fetch_url makes at most 3 attempts; a pending retry has been
\* preceded by one backoff per network failure; two network failures followed
\* by a 200 return that page with status 200 after two backoffs; and every
\* call returns, so that the batch comes to its end.
C13_ThreeAttemptsBackoffTerminates ==
    /\ [](/\ Len(scraper.res.vistos) <= 3
          /\ (scraper.pc = "get" => Len(scraper.vistos) < 3)
          /\ (scraper.pc = "get" =>
                 scraper.esperas = FallasDeRed(scraper.vistos, Len(scraper.vistos)))
          /\ (scraper.res.vistos = <<"error", "error", "200">> =>
                 /\ scraper.res.html = "200"
                 /\ scraper.res.status = 200
                 /\ scraper.res.esperas = 2))
    /\ <>(scraper.pc \in {"done", "abortado"})

\* C13 witness: a call that returned the page of its third attempt after two
\* network failures.
C13_Witness ==
    /\ scraper.res.vistos = <<"error", "error", "200">>
    /\ scraper.res.status = 200
    /\ scraper.res.esperas = 2

\* C14: when the last attempt of a call received a status that is neither 200
\* nor 404, the call returns no page and that status.
C14_FinalStatusRecorded ==
    LET v == scraper.res.vistos
    IN  (v # <<>> /\ v[Len(v)] = "500") =>
            /\ scraper.res.html = Ausente
            /\ scraper.res.status = 500

\* C19: the batch attempts every identity of the configured lists exactly
\* once, in list order, whatever happened to the programs before: while it
\* runs the identities attempted are the first idx of the list, and when it
\* is over they are the whole list.
C19_BatchNeverAborted ==
    /\ scraper.intentados = [i \in 1..scraper.idx |-> i]
    /\ scraper.pc \notin {"idle", "get", "backoff", "guardar", "pausa"} =>
          scraper.intentados = [i \in 1..Len(Lista) |-> i]

\* The subjects of table materias owned by the row.
MateriasGuardadas(programa_id) ==
    {k \in 1..Len(materias) : materias[k].programa_id = programa_id}

\* C20: when scrape_programa_completo has returned, all four pages of the
\* program were fetched whichever of them failed, and a record was handed to
\* the store; the record saved lacks exactly the fields of the absent pages.
C20_AbsentPageOnlyDropsItsFields ==
    scraper.pc = "pausa" =>
        /\ Len(scraper.paginas) = Len(Paginas)
        /\ scraper.guardado # "no"
        /\ scraper.guardado = "ok" =>
              LET fila == programas[Len(programas)]
              IN  /\ fila.nombre_corto = Lista[scraper.idx].datos.nombre_corto
                  /\ scraper.paginas[2] = "ausente" => MateriasGuardadas(fila.id) = {}
                  /\ scraper.paginas[3] = "ausente" => fila.requisitos = Null
                  /\ scraper.paginas[4] = "ausente" => fila.objetivos = Null

(***************************************************************************)
(* Claims about the order of the two searches (SpecPrompt)                 *)
(***************************************************************************)
\* The rows, by position, whose nombre, director or coordinador match the
\* question.
CoincidenciasDirectas(q) ==
    {j \in 1..Len(programas) : \/ ILike(programas[j].nombre, q)
                               \/ ILike(programas[j].director, q)
                               \/ ILike(programas[j].coordinador, q)}

\* C21: when at least one row direct-matches the question, the row selected
\* is the first direct match in store order and the query by area is not
\* made, even when the question holds an area keyword that names another
\* program; the query by area is made only when no row direct-matches.
C21_DirectMatchBeforeAreaFallback ==
    ret.op = "generar_respuesta" =>
        LET directas == CoincidenciasDirectas(ret.pregunta)
        IN  /\ directas # {} =>
                  /\ ret.busqueda.seleccionado = programas[Minimo(directas)].id
                  /\ ret.busqueda.contexto.found
                  /\ ret.busqueda.contexto.nombre = programas[Minimo(directas)].nombre
                  /\ ~ret.busqueda.por_area
            /\ ret.busqueda.por_area => directas = {}

\* C21 witness: the question is the coordinator of the family-law program,
\* stored second, and holds the keyword of the criminal-law area, which names
\* the program stored first; the family-law program is selected.
C21_Witness ==
    /\ ret.op = "generar_respuesta"
    /\ Len(programas) = 2
    /\ programas[1].nombre = DatosPenal.nombre
    /\ CoincidenciasDirectas(ret.pregunta) = {2}
    /\ AreasMencionadas(ret.pregunta) = {1}
    /\ NombradosPor(areas[1].area) = {1}
    /\ ret.busqueda.seleccionado = 2
    /\ ret.busqueda.contexto.nombre = DatosFamilia.nombre
    /\ ~ret.busqueda.por_area

(***************************************************************************)
(* Claims about the cache entry and its age (SpecCache)                    *)
(***************************************************************************)
\* C22: the cached text and the timestamp change only together, in the one
\* step in which a refresh runs past its last suspension: the text becomes
\* what that refresh collected (also when some URLs failed) and the timestamp
\* the time of that step; every step that leaves a refresh at a suspension
\* point, and every step of any other request, leaves the entry as it was.
C22_ValueAndTimestampReplacedTogether ==
    [][/\ scraping_cache' # scraping_cache =>
             \E c \in Tasks :
                 /\ task[c].pc = "sleep" /\ task[c].idx = Len(URLS_UBA)
                 /\ task'[c].pc \in {"idle", "done"}
                 /\ scraping_cache'.data = JoinBlocks(task[c].datos)
                 /\ scraping_cache'.timestamp = now
                 /\ scraping_cache'.ttl_hours = scraping_cache.ttl_hours
       /\ \A c \in Tasks :
             (task'[c] # task[c] /\ task'[c].pc \in {"get", "sleep"}) =>
                 scraping_cache' = scraping_cache
       /\ \A c \in Tasks :
             (/\ task[c].pc = "sleep" /\ task[c].idx = Len(URLS_UBA)
              /\ IF c = Startup THEN task'[c].pc = "done"
                 ELSE task'[c].pc = "idle" /\ last'.status = 200) =>
                    /\ scraping_cache'.data = JoinBlocks(task[c].datos)
                    /\ scraping_cache'.timestamp = now]_vars

\* C22 witness: a refresh in which every URL but the last failed has
\* completed, some time after start-up, while the other caller's refresh is
\* suspended with a page already collected; the entry holds the completed
\* refresh's text and the time of its completion.
C22_Witness ==
    /\ last.op = "refresh_cache" /\ last.status = 200
    /\ scraping_cache.data = PageBlock(URLS_UBA[Len(URLS_UBA)])
    /\ last.ctx = scraping_cache.data
    /\ scraping_cache.timestamp = now
    /\ now > 0
    /\ \E c \in Callers : task[c].pc = "get" /\ task[c].datos # <<>>

\* The minutes elapsed since the refresh that wrote the entry.
MinutosTranscurridos == (now - scraping_cache.timestamp) * 60

\* C23: the cache age answered by health is the time elapsed since the last
\* completed refresh, in whole hours and minutes, also when the entry is
\* older than 24 hours; it is absent exactly when no refresh has completed.
C23_HealthAgeIsElapsedTime ==
    [][(last'.flip # last.flip /\ last'.op = "health") =>
          IF scraping_cache.timestamp = NoTimestamp
          THEN last'.cache_age = <<>>
          ELSE last'.cache_age = <<MinutosTranscurridos \div 60, MinutosTranscurridos % 60>>]_vars

(***************************************************************************)
(* Claims about the subject lines of the scoped prompt (SpecPrompt)        *)
(***************************************************************************)
\* The names on the subject lines of the prompt.
NombresEnPrompt ==
    {ret.prompt.materias_texto[i].nombre : i \in 1..Len(ret.prompt.materias_texto)}

\* C24: for a bundle of k subjects (k <= 30) the scoped prompt has one line
\* for each of the first min(k, 20) subjects, in bundle order, and none for
\* subjects 21 to 30, while its header states the number of subjects the
\* program has in the store.
C24_PromptListsFirstTwentySubjects ==
    (ret.op = "generar_respuesta" /\ ret.prompt.template = "scoped") =>
        LET bundle == ret.busqueda.contexto.materias
            k == Len(bundle)
            lineas == ret.prompt.materias_texto
        IN  /\ k <= 30
            /\ Len(lineas) = IF k < 20 THEN k ELSE 20
            /\ \A i \in 1..Len(lineas) :
                   /\ lineas[i].nombre = bundle[i].nombre
                   /\ lineas[i].horas = (IF bundle[i].horas \in {<<>>, <<0>>} THEN <<>> ELSE bundle[i].horas)
                   /\ lineas[i].tipo = (IF bundle[i].tipo \in {Null, <<>>} THEN <<>> ELSE bundle[i].tipo)
            /\ \A j \in 21..k : bundle[j].nombre \notin NombresEnPrompt
            /\ ret.prompt.total_materias = Len(MateriasDe(materias, ret.busqueda.seleccionado))

\* C24 witness: the program selected has 31 subjects in the store, its bundle
\* has 30, the prompt has 20 subject lines and its header says 31.
C24_Witness ==
    /\ ret.op = "generar_respuesta"
    /\ ret.prompt.template = "scoped"
    /\ Len(ret.busqueda.contexto.materias) = 30
    /\ Len(ret.prompt.materias_texto) = 20
    /\ ret.prompt.materias_texto[20].nombre = ret.busqueda.contexto.materias[20].nombre
    /\ ret.prompt.total_materias > 30
    /\ ret.prompt.total_materias = Len(MateriasDe(materias, ret.busqueda.seleccionado))

====
